---- MODULE Spec2Model ----
(***************************************************************************)
(* A model of the request-to-SQL translation layer of the racing and       *)
(* sports services: the filter compiler (applyFilter), the order compiler  *)
(* (applyOrdering), the row materializer (scanRaces / scanEvents), the     *)
(* repository operations List / Get and the one-time Init.                 *)
(*                                                                         *)
(* Conventions.                                                            *)
(*   - A Go pointer is a sequence of length 0 (nil) or 1 (the value).     *)
(*   - A caller-supplied Go string is a sequence of one-character strings, *)
(*     so that Split / TrimSpace / Fields / ToLower / Contains are         *)
(*     computed character by character.                                    *)
(*   - A query string built by concatenation is the sequence of the        *)
(*     fragments concatenated; every "?" placeholder is a fragment of its  *)
(*     own.                                                                *)
(*   - An argument of the query (interface{}) is a record tagged with its  *)
(*     dynamic type: [str |-> s], [int |-> i] or [bool |-> b].             *)
(***************************************************************************)
EXTENDS Integers, Sequences, FiniteSets, TLC

VARIABLES
    \* filter compiler
    repo,        \* the repository the call is made on: "races" or "events"
    filter,      \* the *ListRacesRequestFilter / *ListEventsRequestFilter passed
    filter2,     \* a second filter, compiled beside the first
    compiled,    \* what applyFilter returned for filter: [query, args]
    compiled2,   \* what applyFilter returned for filter2
    fpc,         \* "ready" before the call to applyFilter, "done" after
    \* order compiler
    orderBy,     \* the *string passed to applyOrdering
    orderParts,  \* the segments the caller wrote orderBy from, when known:
                 \* <<>> or <<segments>>
    ordered,     \* what applyOrdering did: [panic, query]
    opc,         \* "ready" before the call to applyOrdering, "done" after
    \* Init
    once,        \* r.init, a sync.Once: [done, m], m the caller holding its mutex
    ipc,         \* where each caller of Init() is
    ierr,        \* the local variable err of each call of Init()
    iret,        \* what Init() returned to each caller
    sstep,       \* the step of seed() each caller is at: 0 the CREATE TABLE
                 \* statement, i the i-th INSERT statement
    serr,        \* the local variable err of each call of seed()
    seedRuns,    \* how many times seed() has been entered
    seedEnded,   \* how many times seed() has returned
    seedError,   \* what the first seed() to return returned
    stepFailed,  \* whether a statement of seeding has failed
    \* List and Get
    table,       \* the rows of the table races / events, in storage order
    now,         \* the wall clock, what time.Now() returns
    lpc,         \* where each caller of List / Get is
    call,        \* the call each caller makes: [op, id, filter, orderBy, query, args]
    cursor,      \* the *sql.Rows of each call: [rows, pos, err]
    objs,        \* the slice races / events of scanRaces / scanEvents
    sampled,     \* the value of time.Now() read for each element of objs
    lret,        \* what List returned: [objs, err]
    gret,        \* what Get returned: [obj, err]
    queries,     \* the error of each r.db.Query the call has run, in order
    sret,        \* what ListEvents / GetEvent of the service returned: [resp, err]
    reported     \* the statuses the reads have reported of the stored rows:
                 \* a set of [id, start, status]

filterVars == <<filter, filter2, compiled, compiled2, fpc>>
orderVars == <<orderBy, orderParts, ordered, opc>>
initVars ==
    <<once, ipc, ierr, iret, sstep, serr, seedRuns, seedEnded, seedError,
      stepFailed>>
listVars ==
    <<table, now, lpc, call, cursor, objs, sampled, lret, gret, queries, sret,
      reported>>
vars == <<repo, filterVars, orderVars, initVars, listVars>>

----------------------------------------------------------------------------
(* Bounds of the model *)

\* the total number of values held by the list fields of one filter
MaxArgs == 4

\* the number of chunks (words, commas, blanks) an order-by string is made of
MaxChunks == 4

\* the number of segments of an order-by string written segment by segment
MaxSegments == 2

\* the number of callers of Init()
NumCallers == 2

\* the number of rows the table holds
MaxRows == 2

\* the last instant of the clock; instants are 0..MaxTime
MaxTime == 2

----------------------------------------------------------------------------
(* Values *)

\* the values a caller may put in a string list (sports, sides)
StrVals == {"a", "b"}

\* the values a caller may put in an integer list (meeting_ids, leagues, ids)
IntVals == {1, 2}

RECURSIVE SeqsUpTo(_, _)
\* all sequences over S of length at most n
SeqsUpTo(S, n) ==
    IF n = 0 THEN {<<>>}
    ELSE LET shorter == SeqsUpTo(S, n - 1)
         IN shorter \cup {Append(s, x) : s \in {t \in shorter : Len(t) = n - 1}, x \in S}

\* a *bool
BoolPtrs == {<<>>, <<TRUE>>, <<FALSE>>}

----------------------------------------------------------------------------
(* The variables of a component no call is made on *)

\* no call of applyFilter is made
FilterIdle ==
    /\ filter = <<>>
    /\ filter2 = <<>>
    /\ compiled = [query |-> <<>>, args |-> <<>>]
    /\ compiled2 = [query |-> <<>>, args |-> <<>>]
    /\ fpc = "idle"

\* no call of applyOrdering is made
OrderIdle ==
    /\ orderBy = <<>>
    /\ orderParts = <<>>
    /\ ordered = [panic |-> FALSE, query |-> <<>>]
    /\ opc = "idle"

\* the callers of List and Get
Readers == {1, 2}

\* a Go error: nil is <<>>, an error value is <<e>>
NoError == <<>>

\* no call of List or Get is made
ListIdle ==
    /\ table = <<>>
    /\ now = 0
    /\ lpc = [c \in Readers |-> "idle"]
    /\ call = [c \in Readers |-> <<>>]
    /\ cursor = [c \in Readers |-> [rows |-> <<>>, pos |-> 0, err |-> NoError]]
    /\ objs = [c \in Readers |-> <<>>]
    /\ sampled = [c \in Readers |-> <<>>]
    /\ lret = [c \in Readers |-> [objs |-> <<>>, err |-> NoError]]
    /\ gret = [c \in Readers |-> [obj |-> <<>>, err |-> NoError]]
    /\ queries = [c \in Readers |-> <<>>]
    /\ sret = [c \in Readers |-> [resp |-> <<>>, err |-> NoError]]
    /\ reported = {}

----------------------------------------------------------------------------
(* String helpers of the Go standard library, on fragment sequences *)

RECURSIVE Repeat(_, _)
\* strings.Repeat(s, count), for count >= 0
Repeat(s, count) == IF count <= 0 THEN <<>> ELSE s \o Repeat(s, count - 1)

RECURSIVE Join(_, _)
\* strings.Join(elems, sep): elems is a sequence of strings
Join(elems, sep) ==
    IF Len(elems) = 0 THEN <<>>
    ELSE IF Len(elems) = 1 THEN elems[1]
    ELSE elems[1] \o sep \o Join(Tail(elems), sep)

\* for _, v := range list { args = append(args, v) } for a []string
StrArgs(list) == [i \in 1..Len(list) |-> [str |-> list[i]]]

\* for _, v := range list { args = append(args, v) } for a []int64
IntArgs(list) == [i \in 1..Len(list) |-> [int |-> list[i]]]

\* Placeholders with one placeholder too many
PlaceholdersOneTooMany(n) == Repeat(<<"?", ",">>, n) \o <<"?", ")">>

\* strings.Repeat("?,", n-1) + "?)"
Placeholders(n) == Repeat(<<"?", ",">>, n - 1) \o <<"?", ")">>

\* AppendWhere without the test for an empty clause list
AppendWhereAlways(query, clauses) ==
    query \o <<" WHERE ">> \o Join(clauses, <<" AND ">>)

\* if len(clauses) != 0 { query += " WHERE " + strings.Join(clauses, " AND ") }
AppendWhere(query, clauses) ==
    IF Len(clauses) # 0
    THEN query \o <<" WHERE ">> \o Join(clauses, <<" AND ">>)
    ELSE query

----------------------------------------------------------------------------
(* The query catalog *)

\* getRaceQueries()[racesList]
racesListQuery ==
    <<"SELECT id, meeting_id, name, number, visible, advertised_start_time FROM races">>

\* getEventQueries()[eventsList]
eventsListQuery ==
    <<"SELECT id, sport, league, home_side_name, away_side_name, visible, advertised_start_time FROM events">>

----------------------------------------------------------------------------
(* racesRepo.applyFilter *)

\* "meeting_id IN (" + strings.Repeat("?,", len(filter.MeetingIds)-1) + "?)"
racesMeetingIdsClause(meetingIds) ==
    <<"meeting_id IN (">> \o Placeholders(Len(meetingIds))

\* "visible = ?"
VisibleClause == <<"visible = ", "?">>

\* listPresent without the test of the length
listPresentAlways(list) == TRUE

\* len(list) > 0, the test guarding the clause of a list field
listPresent(list) == Len(list) > 0

\* visiblePresent taking false for absent
visiblePresentIfTrue(visible) == visible = <<TRUE>>

\* filter.Visible != nil, the test guarding the visibility clause
visiblePresent(visible) == visible # <<>>

\* racesApplyFilter with the visibility block before the meeting_id block
racesApplyFilterVisibleFirst(query, f) ==
    IF f = <<>> THEN [query |-> query, args |-> <<>>]
    ELSE
    LET flt == f[1]
        hasMeetingIds == listPresent(flt.MeetingIds)
        hasVisible == visiblePresent(flt.Visible)
        clauses ==
            (IF hasVisible THEN <<VisibleClause>> ELSE <<>>)
            \o (IF hasMeetingIds THEN <<racesMeetingIdsClause(flt.MeetingIds)>> ELSE <<>>)
        args ==
            (IF hasVisible THEN <<[bool |-> flt.Visible[1]]>> ELSE <<>>)
            \o (IF hasMeetingIds THEN IntArgs(flt.MeetingIds) ELSE <<>>)
    IN [query |-> AppendWhere(query, clauses), args |-> args]

racesApplyFilter(query, f) ==
    IF f = <<>> THEN [query |-> query, args |-> <<>>]
    ELSE
    LET flt == f[1]
        hasMeetingIds == listPresent(flt.MeetingIds)
        hasVisible == visiblePresent(flt.Visible)
        clauses ==
            (IF hasMeetingIds THEN <<racesMeetingIdsClause(flt.MeetingIds)>> ELSE <<>>)
            \o (IF hasVisible THEN <<VisibleClause>> ELSE <<>>)
        args ==
            (IF hasMeetingIds THEN IntArgs(flt.MeetingIds) ELSE <<>>)
            \o (IF hasVisible THEN <<[bool |-> flt.Visible[1]]>> ELSE <<>>)
    IN [query |-> AppendWhere(query, clauses), args |-> args]

----------------------------------------------------------------------------
(* eventsRepo.applyFilter *)

\* eventsSportsClause with the values written into the query text
eventsSportsClauseInterpolated(sports) ==
    <<"sport IN (">>
    \o Join([i \in 1..Len(sports) |-> <<"'", sports[i], "'">>], <<",">>)
    \o <<")">>

\* "sport IN (" + strings.Repeat("?,", len(filter.Sports)-1) + "?)"
eventsSportsClause(sports) ==
    <<"sport IN (">> \o Placeholders(Len(sports))

\* "league IN (" + strings.Repeat("?,", len(filter.Leagues)-1) + "?)"
eventsLeaguesClause(leagues) ==
    <<"league IN (">> \o Placeholders(Len(leagues))

\* the clause of filter.Sides: home_side_name IN .. OR away_side_name IN ..
eventsSidesClause(sides) ==
    <<"(home_side_name IN (">> \o Repeat(<<"?", ",">>, Len(sides) - 1)
    \o <<"?", ") OR away_side_name IN (">> \o Repeat(<<"?", ",">>, Len(sides) - 1)
    \o <<"?", "))">>

\* eventsSidesArgs with the second loop left out
eventsSidesArgsOnce(sides) == StrArgs(sides)

\* the two loops appending filter.Sides to args
eventsSidesArgs(sides) == StrArgs(sides) \o StrArgs(sides)

\* "id IN (" + strings.Repeat("?,", len(filter.Ids)-1) + "?)"
eventsIdsClause(ids) ==
    <<"id IN (">> \o Placeholders(Len(ids))

eventsApplyFilter(query, f) ==
    IF f = <<>> THEN [query |-> query, args |-> <<>>]
    ELSE
    LET flt == f[1]
        hasSports == listPresent(flt.Sports)
        hasLeagues == listPresent(flt.Leagues)
        hasSides == listPresent(flt.Sides)
        hasIds == listPresent(flt.Ids)
        hasVisible == visiblePresent(flt.Visible)
        clauses ==
            (IF hasSports THEN <<eventsSportsClause(flt.Sports)>> ELSE <<>>)
            \o (IF hasLeagues THEN <<eventsLeaguesClause(flt.Leagues)>> ELSE <<>>)
            \o (IF hasSides THEN <<eventsSidesClause(flt.Sides)>> ELSE <<>>)
            \o (IF hasIds THEN <<eventsIdsClause(flt.Ids)>> ELSE <<>>)
            \o (IF hasVisible THEN <<VisibleClause>> ELSE <<>>)
        args ==
            (IF hasSports THEN StrArgs(flt.Sports) ELSE <<>>)
            \o (IF hasLeagues THEN IntArgs(flt.Leagues) ELSE <<>>)
            \o (IF hasSides THEN eventsSidesArgs(flt.Sides) ELSE <<>>)
            \o (IF hasIds THEN IntArgs(flt.Ids) ELSE <<>>)
            \o (IF hasVisible THEN <<[bool |-> flt.Visible[1]]>> ELSE <<>>)
    IN [query |-> AppendWhere(query, clauses), args |-> args]

----------------------------------------------------------------------------
(* String helpers of the Go standard library, on character sequences *)

\* the white space of unicode.IsSpace that the model's strings hold
WhiteSpace == {" ", "\t"}

\* the lower-case letter of each upper-case letter
UpperToLower ==
    [A |-> "a", B |-> "b", C |-> "c", D |-> "d", E |-> "e", F |-> "f",
     G |-> "g", H |-> "h", I |-> "i", J |-> "j", K |-> "k", L |-> "l",
     M |-> "m", N |-> "n", O |-> "o", P |-> "p", Q |-> "q", R |-> "r",
     S |-> "s", T |-> "t", U |-> "u", V |-> "v", W |-> "w", X |-> "x",
     Y |-> "y", Z |-> "z"]

\* strings.ToLower(s)
ToLower(s) ==
    [i \in 1..Len(s) |->
        IF s[i] \in DOMAIN UpperToLower THEN UpperToLower[s[i]] ELSE s[i]]

\* strings.Contains(s, substr)
Contains(s, substr) ==
    \E i \in 1..(Len(s) - Len(substr) + 1) :
        SubSeq(s, i, i + Len(substr) - 1) = substr

RECURSIVE Split(_, _)
\* strings.Split(s, sep) for a one-character sep: the strings between the
\* separators, one more than there are separators
Split(s, sep) ==
    IF \A i \in 1..Len(s) : s[i] # sep THEN <<s>>
    ELSE LET i == CHOOSE j \in 1..Len(s) :
                    s[j] = sep /\ \A k \in 1..(j - 1) : s[k] # sep
         IN <<SubSeq(s, 1, i - 1)>> \o Split(SubSeq(s, i + 1, Len(s)), sep)

RECURSIVE TrimLeft(_)
TrimLeft(s) ==
    IF Len(s) > 0 /\ s[1] \in WhiteSpace THEN TrimLeft(Tail(s)) ELSE s

RECURSIVE TrimRight(_)
TrimRight(s) ==
    IF Len(s) > 0 /\ s[Len(s)] \in WhiteSpace
    THEN TrimRight(SubSeq(s, 1, Len(s) - 1)) ELSE s

\* strings.TrimSpace(s)
TrimSpace(s) == TrimRight(TrimLeft(s))

RECURSIVE Fields(_)
\* strings.Fields(s): the maximal runs of non-space characters of s
Fields(s) ==
    LET t == TrimLeft(s)
    IN IF Len(t) = 0 THEN <<>>
       ELSE LET n == IF \A i \in 1..Len(t) : t[i] \notin WhiteSpace THEN Len(t)
                     ELSE (CHOOSE j \in 1..Len(t) :
                             /\ t[j] \in WhiteSpace
                             /\ \A k \in 1..(j - 1) : t[k] \notin WhiteSpace) - 1
            IN <<SubSeq(t, 1, n)>> \o Fields(SubSeq(t, n + 1, Len(t)))

----------------------------------------------------------------------------
(* The order compiler *)

\* sortableFields of the races repository: key (as typed by the caller) and
\* database field
racesSortableFields ==
    {[key |-> <<"n", "a", "m", "e">>, field |-> "name"],
     [key |-> <<"n", "u", "m", "b", "e", "r">>, field |-> "number"],
     [key |-> <<"a", "d", "v", "e", "r", "t", "i", "s", "e", "d", "_",
                "s", "t", "a", "r", "t", "_", "t", "i", "m", "e">>,
      field |-> "advertised_start_time"]}

\* sortableFields of the events repository
eventsSortableFields ==
    {[key |-> <<"h", "o", "m", "e", "_", "s", "i", "d", "e", "_",
                "n", "a", "m", "e">>, field |-> "home_side_name"],
     [key |-> <<"a", "w", "a", "y", "_", "s", "i", "d", "e", "_",
                "n", "a", "m", "e">>, field |-> "away_side_name"],
     [key |-> <<"l", "e", "a", "g", "u", "e">>, field |-> "league"],
     [key |-> <<"s", "p", "o", "r", "t">>, field |-> "sport"],
     [key |-> <<"a", "d", "v", "e", "r", "t", "i", "s", "e", "d", "_",
                "s", "t", "a", "r", "t", "_", "t", "i", "m", "e">>,
      field |-> "advertised_start_time"]}

\* fieldSql taking the second word for descending only when it is "desc"
fieldSqlExactDesc(databaseField, orderByFieldSplit) ==
    <<databaseField>>
    \o (IF /\ Len(orderByFieldSplit) = 2
           /\ ToLower(orderByFieldSplit[2]) = <<"d", "e", "s", "c">>
        THEN <<" DESC">> ELSE <<>>)

\* the SQL of a field: the database field, and " DESC" when a second word
\* is there and its lower case contains "desc"
fieldSql(databaseField, orderByFieldSplit) ==
    <<databaseField>>
    \o (IF /\ Len(orderByFieldSplit) = 2
           /\ Contains(ToLower(orderByFieldSplit[2]), <<"d", "e", "s", "c">>)
        THEN <<" DESC">> ELSE <<>>)

\* convertWords without the allow-list: the field reaches the query as the
\* caller typed it
convertWordsNoAllowList(sortableFields, orderByFieldSplit) ==
    IF Len(orderByFieldSplit) > 2
    THEN [panic |-> FALSE, ok |-> FALSE, sql |-> <<>>]
    ELSE IF Len(orderByFieldSplit) = 0
    THEN [panic |-> TRUE, ok |-> FALSE, sql |-> <<>>]
    ELSE [panic |-> FALSE, ok |-> TRUE,
          sql |-> orderByFieldSplit[1]
                  \o (IF /\ Len(orderByFieldSplit) = 2
                         /\ Contains(ToLower(orderByFieldSplit[2]),
                                     <<"d", "e", "s", "c">>)
                      THEN <<" DESC">> ELSE <<>>)]

\* convertOrderByFieldToSql from the words orderByFieldSplit on:
\* [panic, ok, sql]. Indexing the empty result of strings.Fields panics
\* (index out of range).
convertWords(sortableFields, orderByFieldSplit) ==
    IF Len(orderByFieldSplit) > 2
    THEN [panic |-> FALSE, ok |-> FALSE, sql |-> <<>>]
    ELSE IF Len(orderByFieldSplit) = 0
    THEN [panic |-> TRUE, ok |-> FALSE, sql |-> <<>>]
    ELSE IF \A e \in sortableFields : e.key # orderByFieldSplit[1]
    THEN [panic |-> FALSE, ok |-> FALSE, sql |-> <<>>]
    ELSE [panic |-> FALSE, ok |-> TRUE,
          sql |-> fieldSql(
                    (CHOOSE e \in sortableFields : e.key = orderByFieldSplit[1]).field,
                    orderByFieldSplit)]

\* convertOrderByFieldToSql(orderByField) with the allow-list sortableFields
convertOrderByFieldToSql(sortableFields, orderByField) ==
    convertWords(sortableFields, Fields(orderByField))

\* sqls = append(sqls, orderByFieldSql) when ok, in front of what the later
\* segments give; a panic ends the loop
appendSql(r, rest) ==
    IF r.panic THEN [panic |-> TRUE, sqls |-> <<>>]
    ELSE [panic |-> rest.panic,
          sqls |-> (IF r.ok THEN <<r.sql>> ELSE <<>>) \o rest.sqls]

RECURSIVE convertSegments(_, _, _)
\* the loop of convertOrderByToSql over the segments from the i-th on:
\* [panic, sqls]
convertSegments(sortableFields, segments, i) ==
    IF i > Len(segments) THEN [panic |-> FALSE, sqls |-> <<>>]
    ELSE appendSql(
            convertOrderByFieldToSql(sortableFields, TrimSpace(segments[i])),
            convertSegments(sortableFields, segments, i + 1))

\* if len(sqls) != 0 { orderBySql = " ORDER BY " + strings.Join(sqls, ", ") }
orderBySqlOf(r) ==
    IF r.panic THEN [panic |-> TRUE, sql |-> <<>>]
    ELSE [panic |-> FALSE,
          sql |-> IF Len(r.sqls) # 0
                  THEN <<" ORDER BY ">> \o Join(r.sqls, <<", ">>)
                  ELSE <<>>]

\* convertOrderByToSql(orderBy): [panic, sql]
convertOrderByToSql(sortableFields, orderByStr) ==
    orderBySqlOf(convertSegments(sortableFields, Split(orderByStr, ","), 1))

\* return query + orderBySql
appendOrderBy(query, r) ==
    IF r.panic THEN [panic |-> TRUE, query |-> <<>>]
    ELSE [panic |-> FALSE, query |-> query \o r.sql]

\* applyOrdering(query, orderBy) of either repository: [panic, query]
applyOrdering(sortableFields, query, ob) ==
    IF ob = <<>> THEN [panic |-> FALSE, query |-> query]
    ELSE appendOrderBy(query, convertOrderByToSql(sortableFields, ob[1]))

\* racesRepo.applyOrdering(query, orderBy)
racesApplyOrdering(query, ob) == applyOrdering(racesSortableFields, query, ob)

\* eventsRepo.applyOrdering(query, orderBy)
eventsApplyOrdering(query, ob) == applyOrdering(eventsSortableFields, query, ob)

----------------------------------------------------------------------------
(* eventsRepo.Init and eventsRepo.seed *)

\* the number of INSERT statements of seed()
SeedInserts == 100

Callers == 1..NumCallers

\* the error a failing statement of seeding gives
SeedFailure(op, step) == <<[op |-> op, step |-> step]>>

\* the state of the repository after NewEventsRepo
InitIdle ==
    /\ once = [done |-> FALSE, m |-> 0]
    /\ ipc = [c \in Callers |-> "idle"]
    /\ ierr = [c \in Callers |-> NoError]
    /\ iret = [c \in Callers |-> NoError]
    /\ sstep = [c \in Callers |-> 0]
    /\ serr = [c \in Callers |-> NoError]
    /\ seedRuns = 0
    /\ seedEnded = 0
    /\ seedError = NoError
    /\ stepFailed = FALSE

\* Init() is entered: var err error
InitCall(c) ==
    /\ ipc[c] = "idle"
    /\ ipc' = [ipc EXCEPT ![c] = "do"]
    /\ ierr' = [ierr EXCEPT ![c] = NoError]
    /\ UNCHANGED <<once, iret, sstep, serr, seedRuns, seedEnded, seedError,
                   stepFailed>>
    /\ UNCHANGED <<repo, filterVars, orderVars, listVars>>

\* r.init.Do(f) reads done: when set, Do returns without calling f, and
\* otherwise goes on to take the mutex
OnceDo(c) ==
    /\ ipc[c] = "do"
    /\ ipc' = [ipc EXCEPT ![c] = IF once.done THEN "return" ELSE "lock"]
    /\ UNCHANGED <<once, ierr, iret, sstep, serr, seedRuns, seedEnded,
                   seedError, stepFailed>>
    /\ UNCHANGED <<repo, filterVars, orderVars, listVars>>

\* OnceLock without the second reading of done under the mutex
OnceLockNoRecheck(c) ==
    /\ ipc[c] = "lock"
    /\ once.m = 0
    /\ once' = [once EXCEPT !.m = c]
    /\ ipc' = [ipc EXCEPT ![c] = "seed"]
    /\ sstep' = [sstep EXCEPT ![c] = 0]
    /\ serr' = [serr EXCEPT ![c] = NoError]
    /\ seedRuns' = seedRuns + 1
    /\ UNCHANGED <<ierr, iret, seedEnded, seedError, stepFailed>>
    /\ UNCHANGED <<repo, filterVars, orderVars, listVars>>

\* OnceLock with done set when f is called, not when f has returned
OnceLockDoneFirst(c) ==
    /\ ipc[c] = "lock"
    /\ once.m = 0
    /\ IF once.done
       THEN /\ once' = [once EXCEPT !.m = c]
            /\ ipc' = [ipc EXCEPT ![c] = "unlock"]
            /\ UNCHANGED <<sstep, serr, seedRuns>>
       ELSE /\ once' = [done |-> TRUE, m |-> c]
            /\ ipc' = [ipc EXCEPT ![c] = "seed"]
            /\ sstep' = [sstep EXCEPT ![c] = 0]
            /\ serr' = [serr EXCEPT ![c] = NoError]
            /\ seedRuns' = seedRuns + 1
    /\ UNCHANGED <<ierr, iret, seedEnded, seedError, stepFailed>>
    /\ UNCHANGED <<repo, filterVars, orderVars, listVars>>

\* r.init.Do(f) takes the mutex of the Once and reads done again: when still
\* unset it calls f, which calls r.seed()
OnceLock(c) ==
    /\ ipc[c] = "lock"
    /\ once.m = 0
    /\ once' = [once EXCEPT !.m = c]
    /\ IF once.done
       THEN /\ ipc' = [ipc EXCEPT ![c] = "unlock"]
            /\ UNCHANGED <<sstep, serr, seedRuns>>
       ELSE /\ ipc' = [ipc EXCEPT ![c] = "seed"]
            /\ sstep' = [sstep EXCEPT ![c] = 0]
            /\ serr' = [serr EXCEPT ![c] = NoError]
            /\ seedRuns' = seedRuns + 1
    /\ UNCHANGED <<ierr, iret, seedEnded, seedError, stepFailed>>
    /\ UNCHANGED <<repo, filterVars, orderVars, listVars>>

\* seed(): statement, err := r.db.Prepare(CREATE TABLE IF NOT EXISTS ...);
\* if err == nil { _, err = statement.Exec() }
SeedCreate(c) ==
    /\ ipc[c] = "seed"
    /\ sstep[c] = 0
    /\ \/ /\ serr' = [serr EXCEPT ![c] = SeedFailure("Prepare", 0)]
          /\ stepFailed' = TRUE
       \/ /\ serr' = [serr EXCEPT ![c] = SeedFailure("Exec", 0)]
          /\ stepFailed' = TRUE
       \/ /\ serr' = [serr EXCEPT ![c] = NoError]
          /\ UNCHANGED stepFailed
    /\ sstep' = [sstep EXCEPT ![c] = 1]
    /\ UNCHANGED <<once, ipc, ierr, iret, seedRuns, seedEnded, seedError>>
    /\ UNCHANGED <<repo, filterVars, orderVars, listVars>>

\* seed(): one round of the loop, for i := 1; i <= 100; i++:
\* statement, err = r.db.Prepare(INSERT OR IGNORE ...);
\* if err == nil { ...; _, err = statement.Exec(...) }
SeedInsert(c) ==
    /\ ipc[c] = "seed"
    /\ sstep[c] >= 1
    /\ sstep[c] <= SeedInserts
    /\ \/ /\ serr' = [serr EXCEPT ![c] = SeedFailure("Prepare", sstep[c])]
          /\ stepFailed' = TRUE
       \/ /\ serr' = [serr EXCEPT ![c] = SeedFailure("Exec", sstep[c])]
          /\ stepFailed' = TRUE
       \/ /\ serr' = [serr EXCEPT ![c] = NoError]
          /\ UNCHANGED stepFailed
    /\ sstep' = [sstep EXCEPT ![c] = sstep[c] + 1]
    /\ UNCHANGED <<once, ipc, ierr, iret, seedRuns, seedEnded, seedError>>
    /\ UNCHANGED <<repo, filterVars, orderVars, listVars>>

\* seed() returns err, f assigns it to the err of Init(), and the Once sets
\* done (its deferred done.Store)
SeedReturn(c) ==
    /\ ipc[c] = "seed"
    /\ sstep[c] = SeedInserts + 1
    /\ ierr' = [ierr EXCEPT ![c] = serr[c]]
    /\ once' = [once EXCEPT !.done = TRUE]
    /\ seedEnded' = seedEnded + 1
    /\ seedError' = IF seedEnded = 0 THEN serr[c] ELSE seedError
    /\ ipc' = [ipc EXCEPT ![c] = "unlock"]
    /\ UNCHANGED <<iret, sstep, serr, seedRuns, stepFailed>>
    /\ UNCHANGED <<repo, filterVars, orderVars, listVars>>

\* the Once releases its mutex (its deferred m.Unlock) and Do returns
OnceUnlock(c) ==
    /\ ipc[c] = "unlock"
    /\ once' = [once EXCEPT !.m = 0]
    /\ ipc' = [ipc EXCEPT ![c] = "return"]
    /\ UNCHANGED <<ierr, iret, sstep, serr, seedRuns, seedEnded, seedError,
                   stepFailed>>
    /\ UNCHANGED <<repo, filterVars, orderVars, listVars>>

\* Init(): return err
InitReturn(c) ==
    /\ ipc[c] = "return"
    /\ iret' = [iret EXCEPT ![c] = ierr[c]]
    /\ ipc' = [ipc EXCEPT ![c] = "returned"]
    /\ UNCHANGED <<once, ierr, sstep, serr, seedRuns, seedEnded, seedError,
                   stepFailed>>
    /\ UNCHANGED <<repo, filterVars, orderVars, listVars>>

InitInit ==
    /\ repo = "events"
    /\ InitIdle
    /\ FilterIdle
    /\ OrderIdle
    /\ ListIdle

NextInit ==
    \E c \in Callers :
        \/ InitCall(c)
        \/ OnceDo(c)
        \/ OnceLock(c)
        \/ SeedCreate(c)
        \/ SeedInsert(c)
        \/ SeedReturn(c)
        \/ OnceUnlock(c)
        \/ InitReturn(c)

SpecInit == InitInit /\ [][NextInit]_vars

----------------------------------------------------------------------------
(* Properties of Init *)

\* C4: whatever the number of calls of Init() and however they interleave,
\* seed() is entered at most once, and it has run exactly once, to its end,
\* when a call of Init() has returned.
C4_SeedExactlyOnce ==
    /\ seedRuns <= 1
    /\ seedEnded <= 1
    /\ \A c \in Callers :
        ipc[c] = "returned" => seedRuns = 1 /\ seedEnded = 1

\* two calls of Init() have returned
C4_Witness ==
    /\ ipc[1] = "returned"
    /\ ipc[2] = "returned"
    /\ seedRuns = 1

\* C5: every call of Init() returns what the first call's seeding returned:
\* nil if it succeeded, the same error if it failed.
C5_EveryInitReturnsSeedError ==
    \A c \in Callers : ipc[c] = "returned" => iret[c] = seedError

\* a call of Init() is running seed()
Seeding(c) == ipc[c] = "seed"

\* C21: no call of Init() returns before the seeding started by the first
\* call has ended: while seed() runs no call is past r.init.Do, a call that
\* arrived meanwhile waits for the mutex of the Once, and a call past
\* r.init.Do finds done set and seed() returned.
C21_NoReturnBeforeSeedEnds ==
    /\ (\E d \in Callers : Seeding(d)) =>
            /\ ~once.done
            /\ \A c \in Callers :
                ipc[c] \in {"idle", "do", "lock", "seed"}
    /\ \A c \in Callers :
        ipc[c] \in {"return", "returned"} =>
            /\ once.done
            /\ seedEnded = 1
            /\ \A d \in Callers : ~Seeding(d)

\* a call of Init() waits for the mutex of the Once while the other is in
\* the middle of the INSERT statements
C21_Witness ==
    \E c, d \in Callers :
        /\ Seeding(d)
        /\ sstep[d] > 1 /\ sstep[d] <= SeedInserts
        /\ ipc[c] = "lock"

\* a call of Init() that did not run seed() has returned
C21_WitnessReturned ==
    \E c, d \in Callers :
        /\ c # d
        /\ ipc[c] = "returned"
        /\ sstep[c] = 0
        /\ sstep[d] = SeedInserts + 1

\* C22: the call of Init() that ran seed() returns an error when a statement
\* of seeding has failed, be it the CREATE TABLE statement or one of the
\* INSERT statements, prepared or executed; it returns nil only when every
\* statement has succeeded.
C22_InitErrorIffStepFailed ==
    \A c \in Callers :
        (ipc[c] = "returned" /\ sstep[c] = SeedInserts + 1) =>
            (iret[c] = NoError <=> ~stepFailed)

----------------------------------------------------------------------------
(* The filter compiler applied to every filter within the bounds *)

\* the list fields of a filter, by repository
ListFields(r) ==
    IF r = "races" THEN {"MeetingIds"} ELSE {"Sports", "Leagues", "Sides", "Ids"}

\* the values a caller may put in list field F
FieldVals(F) == IF F \in {"Sports", "Sides"} THEN StrVals ELSE IntVals

\* the filters obtained from flt by changing one value, dropping the last value
\* of one list, or changing the visibility flag; flt itself is among them
Variants(r, flt) ==
    {flt}
    \cup UNION {{[flt EXCEPT ![F][i] = v] : i \in 1..Len(flt[F]), v \in FieldVals(F)}
                : F \in ListFields(r)}
    \cup {[flt EXCEPT ![F] = SubSeq(flt[F], 1, Len(flt[F]) - 1)]
            : F \in {G \in ListFields(r) : Len(flt[G]) > 0}}
    \cup {[flt EXCEPT !.Visible = v] : v \in BoolPtrs}

InitRacesFilter ==
    /\ repo = "races"
    /\ \/ filter = <<>> /\ filter2 = <<>>
       \/ \E m \in SeqsUpTo(IntVals, MaxArgs), v \in BoolPtrs :
            LET flt == [MeetingIds |-> m, Visible |-> v]
            IN /\ filter = <<flt>>
               /\ \/ filter2 = <<>>
                  \/ \E g \in Variants("races", flt) : filter2 = <<g>>

InitEventsFilter ==
    /\ repo = "events"
    /\ \/ filter = <<>> /\ filter2 = <<>>
       \/ \E s \in SeqsUpTo(StrVals, MaxArgs) :
          \E l \in SeqsUpTo(IntVals, MaxArgs - Len(s)) :
          \E d \in SeqsUpTo(StrVals, MaxArgs - Len(s) - Len(l)) :
          \E i \in SeqsUpTo(IntVals, MaxArgs - Len(s) - Len(l) - Len(d)) :
          \E v \in BoolPtrs :
            LET flt == [Sports |-> s, Leagues |-> l, Sides |-> d, Ids |-> i,
                        Visible |-> v]
            IN /\ filter = <<flt>>
               /\ \/ filter2 = <<>>
                  \/ \E g \in Variants("events", flt) : filter2 = <<g>>

InitFilter ==
    /\ InitRacesFilter \/ InitEventsFilter
    /\ compiled = [query |-> <<>>, args |-> <<>>]
    /\ compiled2 = [query |-> <<>>, args |-> <<>>]
    /\ fpc = "ready"
    /\ OrderIdle
    /\ InitIdle
    /\ ListIdle

\* racesRepo.applyFilter(query, filter), on both filters
RacesApplyFilter ==
    /\ fpc = "ready"
    /\ repo = "races"
    /\ compiled' = racesApplyFilter(racesListQuery, filter)
    /\ compiled2' = racesApplyFilter(racesListQuery, filter2)
    /\ fpc' = "done"
    /\ UNCHANGED <<repo, filter, filter2, orderVars, initVars, listVars>>

\* eventsRepo.applyFilter(query, filter), on both filters
EventsApplyFilter ==
    /\ fpc = "ready"
    /\ repo = "events"
    /\ compiled' = eventsApplyFilter(eventsListQuery, filter)
    /\ compiled2' = eventsApplyFilter(eventsListQuery, filter2)
    /\ fpc' = "done"
    /\ UNCHANGED <<repo, filter, filter2, orderVars, initVars, listVars>>

NextFilter == RacesApplyFilter \/ EventsApplyFilter

SpecFilter == InitFilter /\ [][NextFilter]_vars

----------------------------------------------------------------------------
(* Properties of the filter compiler *)

\* the base query applyFilter was given
BaseQuery == IF repo = "races" THEN racesListQuery ELSE eventsListQuery

\* the fragments of query q, as a set
Fragments(q) == {q[i] : i \in DOMAIN q}

\* the number of occurrences of fragment t in query q
CountOf(q, t) == Cardinality({i \in DOMAIN q : q[i] = t})

\* which predicates are present in filter f and how many values each list holds
Shape(r, f) ==
    IF f = <<>>
    THEN [lens |-> [F \in ListFields(r) |-> 0], visible |-> FALSE]
    ELSE [lens |-> [F \in ListFields(r) |-> Len(f[1][F])],
          visible |-> f[1].Visible # <<>>]

\* the string values filter f supplies
SuppliedStrings(r, f) ==
    IF f = <<>> THEN {}
    ELSE UNION {{f[1][F][i] : i \in 1..Len(f[1][F])}
                : F \in ListFields(r) \cap {"Sports", "Sides"}}

\* the values filter f supplies, tagged as arguments are
SuppliedArgs(r, f) ==
    IF f = <<>> THEN {}
    ELSE UNION {{IF F \in {"Sports", "Sides"} THEN [str |-> f[1][F][i]]
                                               ELSE [int |-> f[1][F][i]]
                  : i \in 1..Len(f[1][F])} : F \in ListFields(r)}
         \cup {[bool |-> f[1].Visible[i]] : i \in 1..Len(f[1].Visible)}

\* C1: the query string returned by applyFilter depends only on the shape of
\* the filter (which predicates are present, how many values each list
\* holds): two filters of the same shape compile to the identical query
\* string; no supplied string value is a fragment of the query, and every
\* supplied value is in the returned argument list. Filters of one shape
\* are connected by single-value changes, which filter2 ranges over.
C1_QueryDependsOnShapeOnly ==
    fpc = "done" =>
        /\ (Shape(repo, filter) = Shape(repo, filter2)
                => compiled.query = compiled2.query)
        /\ SuppliedStrings(repo, filter) \cap Fragments(compiled.query) = {}
        /\ SuppliedArgs(repo, filter) \subseteq Fragments(compiled.args)

\* two event filters of one shape with different sports, both compiled
C1_Witness ==
    /\ fpc = "done"
    /\ repo = "events"
    /\ filter # <<>> /\ filter2 # <<>>
    /\ Shape(repo, filter) = Shape(repo, filter2)
    /\ Len(filter[1].Sports) = 2
    /\ filter[1].Sports # filter2[1].Sports
    /\ filter[1].Ids # <<>>

\* nothing constrains the result: a nil filter, or one whose lists are all
\* empty and whose Visible is nil
NoConstraint(r, f) ==
    \/ f = <<>>
    \/ /\ \A F \in ListFields(r) : Len(f[1][F]) = 0
       /\ f[1].Visible = <<>>

\* C8: for a nil filter and for a filter with all lists empty and no
\* visibility flag, applyFilter returns the base query unchanged, without a
\* WHERE keyword, and an empty argument list.
C8_NoConstraintIsNoOp ==
    (fpc = "done" /\ NoConstraint(repo, filter)) =>
        /\ compiled.query = BaseQuery
        /\ " WHERE " \notin Fragments(compiled.query)
        /\ compiled.args = <<>>

\* a filter that is present but constrains nothing has been compiled
C8_Witness ==
    /\ fpc = "done"
    /\ filter # <<>>
    /\ NoConstraint(repo, filter)

\* the head of the clause emitted for list field F
ClauseHead(F) ==
    CASE F = "MeetingIds" -> "meeting_id IN ("
      [] F = "Sports" -> "sport IN ("
      [] F = "Leagues" -> "league IN ("
      [] F = "Ids" -> "id IN ("

\* n placeholders separated by commas
QMarks(n) == [i \in 1..(2 * n - 1) |-> IF i % 2 = 1 THEN "?" ELSE ","]

\* n placeholders separated by commas, and the closing parenthesis
InList(n) == QMarks(n) \o <<")">>

\* filter f constrains list field F and nothing else
OnlyField(r, f, F) ==
    /\ f # <<>>
    /\ Len(f[1][F]) >= 1
    /\ \A G \in ListFields(r) \ {F} : Len(f[1][G]) = 0
    /\ f[1].Visible = <<>>

\* C9: a membership filter on one field F (meeting_id; sport, league, id)
\* with n >= 1 values compiles to F IN (...) with exactly n placeholders, and
\* the argument list is the n values in the order given, duplicates included.
C9_MembershipClause ==
    fpc = "done" =>
        \A F \in ListFields(repo) \ {"Sides"} :
            OnlyField(repo, filter, F) =>
                LET vals == filter[1][F]
                    n == Len(vals)
                IN /\ compiled.query
                        = BaseQuery \o <<" WHERE ", ClauseHead(F)>> \o InList(n)
                   /\ CountOf(compiled.query, "?") = n
                   /\ Len(compiled.args) = n
                   /\ \A i \in 1..n :
                        compiled.args[i]
                            = IF F = "Sports" THEN [str |-> vals[i]]
                                              ELSE [int |-> vals[i]]

\* an id filter holding three values, one of them twice, has been compiled
C9_Witness ==
    /\ fpc = "done"
    /\ repo = "events"
    /\ OnlyField(repo, filter, "Ids")
    /\ filter[1].Ids = <<2, 1, 2>>

\* C10: a side filter with n >= 1 values compiles to
\* (home_side_name IN (...) OR away_side_name IN (...)) with n placeholders in
\* each group, and the argument list is the value list twice, in order.
C10_SidesClause ==
    (fpc = "done" /\ repo = "events" /\ OnlyField(repo, filter, "Sides")) =>
        LET vals == filter[1].Sides
            n == Len(vals)
        IN /\ compiled.query
                = BaseQuery \o <<" WHERE ", "(home_side_name IN (">>
                  \o QMarks(n) \o <<") OR away_side_name IN (">>
                  \o QMarks(n) \o <<"))">>
           /\ CountOf(compiled.query, "?") = 2 * n
           /\ Len(compiled.args) = 2 * n
           /\ \A i \in 1..n :
                /\ compiled.args[i] = [str |-> vals[i]]
                /\ compiled.args[n + i] = [str |-> vals[i]]

\* a side filter holding two different values has been compiled
C10_Witness ==
    /\ fpc = "done"
    /\ repo = "events"
    /\ OnlyField(repo, filter, "Sides")
    /\ filter[1].Sides = <<"b", "a">>

\* the predicates of a filter in the order applyFilter tests them
PredicateOrder(r) ==
    IF r = "races" THEN <<"MeetingIds", "Visible">>
    ELSE <<"Sports", "Leagues", "Sides", "Ids", "Visible">>

\* the fragment the clause of predicate F begins with
PredicateHead(F) ==
    CASE F = "Sides" -> "(home_side_name IN ("
      [] F = "Visible" -> "visible = "
      [] OTHER -> ClauseHead(F)

\* filter record flt holds predicate F
PresentIn(flt, F) ==
    IF F = "Visible" THEN flt.Visible # <<>> ELSE Len(flt[F]) > 0

\* the arguments predicate F of filter record flt contributes, in order
ArgsFor(flt, F) ==
    LET strs(l) == [i \in 1..Len(l) |-> [str |-> l[i]]]
        ints(l) == [i \in 1..Len(l) |-> [int |-> l[i]]]
    IN CASE F = "Visible" -> [i \in 1..Len(flt.Visible) |-> [bool |-> flt.Visible[i]]]
         [] F = "Sports" -> strs(flt.Sports)
         [] F = "Sides" -> strs(flt.Sides) \o strs(flt.Sides)
         [] OTHER -> ints(flt[F])

RECURSIVE ArgsInOrder(_, _, _)
\* the arguments of the predicates order[k..] of flt, one predicate after another
ArgsInOrder(flt, order, k) ==
    IF k > Len(order) THEN <<>>
    ELSE ArgsFor(flt, order[k]) \o ArgsInOrder(flt, order, k + 1)

\* the first position of fragment t in query q
IndexOf(q, t) == CHOOSE i \in DOMAIN q : q[i] = t /\ \A j \in 1..(i - 1) : q[j] # t

\* C11: the clauses of a filter appear in one fixed order (events: sport,
\* league, side, id, visible; races: meeting_id, visible), each present
\* predicate once and each absent one not at all, behind the base query and
\* exactly one WHERE that is there only when a clause is, with AND between
\* two clauses; the arguments follow the same order, and the query holds as
\* many placeholders as there are arguments.
C11_ClausesInFixedOrder ==
    fpc = "done" =>
        /\ CountOf(compiled.query, "?") = Len(compiled.args)
        /\ filter # <<>> =>
            LET q == compiled.query
                flt == filter[1]
                order == PredicateOrder(repo)
                present == {k \in DOMAIN order : PresentIn(flt, order[k])}
                at(k) == IndexOf(q, PredicateHead(order[k]))
            IN /\ SubSeq(q, 1, Len(BaseQuery)) = BaseQuery
               /\ \A k \in DOMAIN order :
                    CountOf(q, PredicateHead(order[k]))
                        = IF k \in present THEN 1 ELSE 0
               /\ \A j, k \in present : j < k => at(j) < at(k)
               /\ CountOf(q, " WHERE ") = IF present = {} THEN 0 ELSE 1
               /\ CountOf(q, " AND ")
                    = IF present = {} THEN 0 ELSE Cardinality(present) - 1
               /\ \A k \in present :
                    q[at(k) - 1] = IF \A j \in present : k <= j
                                   THEN " WHERE " ELSE " AND "
               /\ present # {} => q[Len(BaseQuery) + 1] = " WHERE "
               /\ compiled.args = ArgsInOrder(flt, order, 1)

\* an event filter holding all five predicates has been compiled
C11_Witness ==
    /\ fpc = "done"
    /\ repo = "events"
    /\ filter # <<>>
    /\ \A F \in {"Sports", "Leagues", "Sides", "Ids", "Visible"} :
            PresentIn(filter[1], F)
    /\ CountOf(compiled.query, " AND ") = 4

\* C18 as claimed: a list field holding no value has the clause F IN () in
\* the query, its head followed by no placeholder.
C18_EmptyListEmitsEmptyIn ==
    (fpc = "done" /\ filter # <<>>) =>
        \A F \in ListFields(repo) :
            Len(filter[1][F]) = 0 =>
                \E i \in 1..(Len(compiled.query) - 1) :
                    /\ compiled.query[i] = PredicateHead(F)
                    /\ compiled.query[i + 1] # "?"

\* C18 amended: a list field holding no value has no clause in the query
\* and no argument, and every IN ( of the query is followed by a
\* placeholder: F IN () is never emitted.
C18_EmptyListEmitsNoClause ==
    (fpc = "done" /\ filter # <<>>) =>
        /\ \A F \in ListFields(repo) :
            Len(filter[1][F]) = 0 =>
                PredicateHead(F) \notin Fragments(compiled.query)
        /\ \A i \in 1..Len(compiled.query) :
            compiled.query[i]
                \in {PredicateHead(F) : F \in ListFields(repo)}
                        \cup {") OR away_side_name IN ("}
                => (i < Len(compiled.query) /\ compiled.query[i + 1] = "?")
        /\ Len(compiled.args)
            = Len(filter[1].Visible)
              + Len(ArgsInOrder(filter[1],
                                SubSeq(PredicateOrder(repo), 1,
                                       Len(PredicateOrder(repo)) - 1), 1))

\* an event filter with an empty sports list beside an id list, and a race
\* filter with an empty meeting_ids list beside a visibility flag, compiled
C18_Witness ==
    /\ fpc = "done"
    /\ filter # <<>>
    /\ \/ /\ repo = "events"
          /\ filter[1].Sports = <<>>
          /\ filter[1].Ids # <<>>
       \/ /\ repo = "races"
          /\ filter[1].MeetingIds = <<>>
          /\ filter[1].Visible # <<>>
    /\ " WHERE " \in Fragments(compiled.query)

\* args holds an argument of type bool
BoolArgs(args) == {i \in 1..Len(args) : args[i] \in {[bool |-> b] : b \in BOOLEAN}}

\* C19: a filter whose Visible is absent has no visibility clause and no
\* boolean argument; a filter whose Visible is present, be it false or true,
\* has the one clause visible = ? and the given boolean as argument.
C19_VisibleAbsentOrGiven ==
    (fpc = "done" /\ filter # <<>>) =>
        LET v == filter[1].Visible
            q == compiled.query
            args == compiled.args
        IN /\ v = <<>> =>
                /\ "visible = " \notin Fragments(q)
                /\ BoolArgs(args) = {}
           /\ v # <<>> =>
                /\ CountOf(q, "visible = ") = 1
                /\ SubSeq(q, Len(q) - 1, Len(q)) = <<"visible = ", "?">>
                /\ BoolArgs(args) = {Len(args)}
                /\ args[Len(args)] = [bool |-> v[1]]

\* a filter whose Visible is false, beside a list, has been compiled
C19_Witness ==
    /\ fpc = "done"
    /\ filter # <<>>
    /\ filter[1].Visible = <<FALSE>>
    /\ Len(compiled.args) >= 2
    /\ "visible = " \in Fragments(compiled.query)

----------------------------------------------------------------------------
(* The order compiler applied to every order-by string within the bounds *)

\* what order-by strings are made of: field names of either repository,
\* names that are no sortable field, direction words, the comma and a blank
Chunks ==
    {<<"n", "a", "m", "e">>, <<"l", "e", "a", "g", "u", "e">>,
     <<"N", "a", "m", "e">>, <<"i", "d">>,
     <<"d", "e", "s", "c">>, <<"D", "E", "S", "C">>, <<"a", "s", "c">>,
     <<",">>, <<" ">>, <<"\t">>}

RECURSIVE ChunkStrings(_)
\* the strings made of at most n chunks
ChunkStrings(n) ==
    IF n = 0 THEN {<<>>}
    ELSE LET shorter == ChunkStrings(n - 1)
         IN shorter \cup {str \o c : str \in shorter, c \in Chunks}

\* the field names a caller writes a segment with: the text and its characters
FieldWords ==
    {[text |-> "name", chars |-> <<"n", "a", "m", "e">>],
     [text |-> "number", chars |-> <<"n", "u", "m", "b", "e", "r">>],
     [text |-> "league", chars |-> <<"l", "e", "a", "g", "u", "e">>],
     [text |-> "sport", chars |-> <<"s", "p", "o", "r", "t">>]}

\* the direction tokens a caller writes a segment with, and whether the token
\* holds the letters d, e, s, c in a row in either case; no token is <<>>
DirWords ==
    {[chars |-> <<>>, desc |-> FALSE],
     [chars |-> <<"d", "e", "s", "c">>, desc |-> TRUE],
     [chars |-> <<"D", "E", "S", "C">>, desc |-> TRUE],
     [chars |-> <<"d", "e", "s", "c", "e", "n", "d", "i", "n", "g">>,
      desc |-> TRUE],
     [chars |-> <<"x", "d", "e", "s", "c", "x">>, desc |-> TRUE],
     [chars |-> <<"a", "s", "c">>, desc |-> FALSE],
     [chars |-> <<"d", "s", "c">>, desc |-> FALSE]}

\* the segments a caller writes: a field name and a direction token
Segments == [field : FieldWords, dir : DirWords]

\* a segment as the caller writes it: the field, and a blank and the
\* direction token when there is one
SegmentString(seg) ==
    seg.field.chars
    \o (IF seg.dir.chars = <<>> THEN <<>> ELSE <<" ">> \o seg.dir.chars)

RECURSIVE OrderByString(_)
\* the order-by string of a sequence of segments, ", " between two segments
OrderByString(segs) ==
    IF Len(segs) = 0 THEN <<>>
    ELSE IF Len(segs) = 1 THEN SegmentString(segs[1])
    ELSE SegmentString(segs[1]) \o <<",", " ">> \o OrderByString(Tail(segs))

InitOrder ==
    /\ repo \in {"races", "events"}
    /\ \/ orderBy = <<>> /\ orderParts = <<>>
       \/ \E str \in ChunkStrings(MaxChunks) :
            orderBy = <<str>> /\ orderParts = <<>>
       \/ \E segs \in SeqsUpTo(Segments, MaxSegments) :
            orderBy = <<OrderByString(segs)>> /\ orderParts = <<segs>>
    /\ ordered = [panic |-> FALSE, query |-> <<>>]
    /\ opc = "ready"
    /\ FilterIdle
    /\ InitIdle
    /\ ListIdle

\* racesRepo.applyOrdering(query, orderBy)
RacesApplyOrdering ==
    /\ opc = "ready"
    /\ repo = "races"
    /\ ordered' = racesApplyOrdering(racesListQuery, orderBy)
    /\ opc' = "done"
    /\ UNCHANGED <<repo, orderBy, orderParts, filterVars, initVars, listVars>>

\* eventsRepo.applyOrdering(query, orderBy)
EventsApplyOrdering ==
    /\ opc = "ready"
    /\ repo = "events"
    /\ ordered' = eventsApplyOrdering(eventsListQuery, orderBy)
    /\ opc' = "done"
    /\ UNCHANGED <<repo, orderBy, orderParts, filterVars, initVars, listVars>>

NextOrder == RacesApplyOrdering \/ EventsApplyOrdering

SpecOrder == InitOrder /\ [][NextOrder]_vars

----------------------------------------------------------------------------
(* Properties of the order compiler *)

\* the allow-listed column names of the repository
AllowedColumns ==
    IF repo = "races" THEN {"name", "number", "advertised_start_time"}
    ELSE {"home_side_name", "away_side_name", "league", "sport",
          "advertised_start_time"}

\* the fragments of q behind its first n
Behind(q, n) == SubSeq(q, n + 1, Len(q))

\* t is a list of allow-listed columns, each optionally followed by " DESC",
\* separated by ", "
ColumnList(t) ==
    /\ Len(t) >= 1
    /\ t[1] \in AllowedColumns
    /\ t[Len(t)] # ", "
    /\ \A i \in 1..Len(t) :
        /\ t[i] \in AllowedColumns \cup {" DESC", ", "}
        /\ (t[i] = " DESC" => i > 1 /\ t[i - 1] \in AllowedColumns)
        /\ (t[i] = ", " => i > 1 /\ t[i - 1] \in AllowedColumns \cup {" DESC"})
        /\ (t[i] \in AllowedColumns => i = 1 \/ t[i - 1] = ", ")

\* C2: whatever the order-by string, the query applyOrdering returns is the
\* base query, alone or followed by " ORDER BY " and a list of allow-listed
\* column names of the repository, each optionally followed by " DESC":
\* nothing else of the caller's string reaches the query.
C2_OnlyAllowListedColumns ==
    (opc = "done" /\ ~ordered.panic) =>
        \/ ordered.query = BaseQuery
        \/ /\ Len(ordered.query) > Len(BaseQuery) + 1
           /\ SubSeq(ordered.query, 1, Len(BaseQuery) + 1)
                = BaseQuery \o <<" ORDER BY ">>
           /\ ColumnList(Behind(ordered.query, Len(BaseQuery) + 1))

\* an order-by string naming a sortable field, a descending direction and a
\* name that is no sortable field has been compiled into an ORDER BY clause
C2_Witness ==
    /\ opc = "done"
    /\ ~ordered.panic
    /\ orderBy # <<>>
    /\ Contains(orderBy[1], <<"N", "a", "m", "e">>)
    /\ " DESC" \in Fragments(ordered.query)

\* C3: applyOrdering never fails: for every order-by string that is present
\* it returns a query that begins with the query it was given.
C3_NeverFails ==
    (opc = "done" /\ orderBy # <<>>) =>
        /\ ~ordered.panic
        /\ Len(ordered.query) >= Len(BaseQuery)
        /\ SubSeq(ordered.query, 1, Len(BaseQuery)) = BaseQuery

\* segment seg names an allow-listed column of the repository
Recognized(seg) == seg.field.text \in AllowedColumns

\* what a recognized segment is to compile to: its column, and " DESC" when
\* its direction token holds "desc"
SegmentSql(seg) ==
    <<seg.field.text>> \o (IF seg.dir.desc THEN <<" DESC">> ELSE <<>>)

RECURSIVE SegmentsSql(_)
\* what segments segs are to compile to: the recognized ones, in the order
\* written, ", " between two of them
SegmentsSql(segs) ==
    IF Len(segs) = 0 THEN <<>>
    ELSE LET rest == SegmentsSql(Tail(segs))
         IN IF ~Recognized(segs[1]) THEN rest
            ELSE IF rest = <<>> THEN SegmentSql(segs[1])
            ELSE SegmentSql(segs[1]) \o <<", ">> \o rest

\* the ORDER BY clause segments segs are to compile to
OrderBySql(segs) ==
    IF SegmentsSql(segs) = <<>> THEN <<>>
    ELSE <<" ORDER BY ">> \o SegmentsSql(segs)

\* the order-by string str holds the name of no allow-listed column
NoRecognizedField(r, str) ==
    \A e \in (IF r = "races" THEN racesSortableFields ELSE eventsSortableFields) :
        ~Contains(str, e.key)

\* C12: applyOrdering returns the query followed by " ORDER BY " and the
\* compiled recognized segments, in the order written and joined by ", ";
\* when the order-by string is absent or holds no recognized field it
\* returns the query unchanged.
C12_OrderByAppended ==
    opc = "done" =>
        /\ orderBy = <<>> => (~ordered.panic /\ ordered.query = BaseQuery)
        /\ (orderBy # <<>> /\ NoRecognizedField(repo, orderBy[1]))
                => (~ordered.panic /\ ordered.query = BaseQuery)
        /\ orderParts # <<>>
                => /\ ~ordered.panic
                   /\ ordered.query = BaseQuery \o OrderBySql(orderParts[1])

\* C12 for the order-by strings in which every segment holds a word
C12_OrderByAppendedNoEmptySegment ==
    (/\ opc = "done"
     /\ orderBy # <<>>
     /\ LET segments == Split(orderBy[1], ",")
        IN \A i \in DOMAIN segments : TrimSpace(segments[i]) # <<>>)
        =>
        /\ ~ordered.panic
        /\ NoRecognizedField(repo, orderBy[1]) => ordered.query = BaseQuery
        /\ orderParts # <<>>
                => ordered.query = BaseQuery \o OrderBySql(orderParts[1])

\* "name desc, number" has been compiled on races to ORDER BY name DESC, number
C12_ExampleCompiled ==
    /\ opc = "done"
    /\ repo = "races"
    /\ orderBy = << <<"n", "a", "m", "e", " ", "d", "e", "s", "c", ",", " ",
                      "n", "u", "m", "b", "e", "r">> >>
    /\ ordered.query
        = BaseQuery \o <<" ORDER BY ", "name", " DESC", ", ", "number">>

\* C13: a segment made of an allow-listed field and a direction token is
\* kept; it compiles to the column followed by " DESC" when the token holds
\* "desc" in either case anywhere in it, and to the bare column for any
\* other token.
C13_DescIffTokenHoldsDesc ==
    (/\ opc = "done"
     /\ orderParts # <<>>
     /\ Len(orderParts[1]) = 1
     /\ Recognized(orderParts[1][1])
     /\ orderParts[1][1].dir.chars # <<>>)
        =>
        LET seg == orderParts[1][1]
        IN /\ ~ordered.panic
           /\ ordered.query
                = BaseQuery \o <<" ORDER BY ", seg.field.text>>
                  \o (IF seg.dir.desc THEN <<" DESC">> ELSE <<>>)

\* "league xdescx" has been compiled on events
C13_Witness ==
    /\ opc = "done"
    /\ repo = "events"
    /\ orderBy = << <<"l", "e", "a", "g", "u", "e", " ",
                      "x", "d", "e", "s", "c", "x">> >>
    /\ orderParts # <<>>
    /\ " DESC" \in Fragments(ordered.query)

\* "name asc" has been compiled on races: the segment is kept
C13_WitnessAsc ==
    /\ opc = "done"
    /\ repo = "races"
    /\ orderBy = << <<"n", "a", "m", "e", " ", "a", "s", "c">> >>
    /\ orderParts # <<>>
    /\ ordered.query = BaseQuery \o <<" ORDER BY ", "name">>

----------------------------------------------------------------------------
(* The database: r.db.Query(query, args...) *)

\* a stored advertised_start_time: a datetime at instant t (the instants
\* from 0 on are those a Timestamp can hold, the earlier ones are not), or a
\* text that is no datetime
DateTime(t) == [kind |-> "datetime", t |-> t]
NoDateTime == [kind |-> "text", t |-> 0]

\* the rows the table races may hold
RaceRows ==
    {[id |-> 1, meeting_id |-> 1, name |-> "a", number |-> 1, visible |-> TRUE,
      advertised_start_time |-> DateTime(1)],
     [id |-> 2, meeting_id |-> 2, name |-> "b", number |-> 2, visible |-> FALSE,
      advertised_start_time |-> DateTime(1)],
     [id |-> 2, meeting_id |-> 2, name |-> "b", number |-> 2, visible |-> FALSE,
      advertised_start_time |-> NoDateTime],
     [id |-> 2, meeting_id |-> 2, name |-> "b", number |-> 2, visible |-> FALSE,
      advertised_start_time |-> DateTime(-1)]}

\* the rows the table events may hold. The table is the database file's:
\* seed() creates it only IF NOT EXISTS, so its key is not known to be id.
EventRows ==
    {[id |-> 1, sport |-> "a", league |-> 1, home_side_name |-> "a",
      away_side_name |-> "b", visible |-> TRUE,
      advertised_start_time |-> DateTime(1)],
     [id |-> 2, sport |-> "b", league |-> 2, home_side_name |-> "b",
      away_side_name |-> "a", visible |-> FALSE,
      advertised_start_time |-> DateTime(1)],
     [id |-> 2, sport |-> "b", league |-> 2, home_side_name |-> "b",
      away_side_name |-> "a", visible |-> FALSE,
      advertised_start_time |-> NoDateTime],
     [id |-> 2, sport |-> "b", league |-> 2, home_side_name |-> "b",
      away_side_name |-> "a", visible |-> FALSE,
      advertised_start_time |-> DateTime(-1)]}

\* the fragments that open a predicate of a WHERE clause
Heads ==
    {"meeting_id IN (", "sport IN (", "league IN (", "(home_side_name IN (",
     ") OR away_side_name IN (", "id IN (", "visible = "}

\* the column a predicate is on
HeadColumn(h) ==
    CASE h = "meeting_id IN (" -> "meeting_id"
      [] h = "sport IN (" -> "sport"
      [] h = "league IN (" -> "league"
      [] h = "(home_side_name IN (" -> "home_side_name"
      [] h = ") OR away_side_name IN (" -> "away_side_name"
      [] h = "id IN (" -> "id"
      [] h = "visible = " -> "visible"

\* the value v of column col, tagged as an argument of its type is
ColumnValue(col, v) ==
    IF col \in {"sport", "home_side_name", "away_side_name", "name"}
    THEN [str |-> v]
    ELSE IF col = "visible" THEN [bool |-> v] ELSE [int |-> v]

\* the number of the placeholder at position i of query q
PlaceholderNo(q, i) == Cardinality({j \in 1..i : q[j] = "?"})

\* the placeholders of the predicate opened at position p of query q
PredicatePlaceholders(q, p) ==
    {i \in (p + 1)..Len(q) :
        /\ q[i] = "?"
        /\ \A j \in (p + 1)..i : q[j] \notin Heads}

\* the predicate opened at position p of q holds of row: the value of its
\* column is among the arguments bound to its placeholders
PredicateHolds(q, args, row, p) ==
    \E i \in PredicatePlaceholders(q, p) :
        args[PlaceholderNo(q, i)]
            = ColumnValue(HeadColumn(q[p]), row[HeadColumn(q[p])])

\* the WHERE clause of query q, under the arguments args, holds of row
sqlMatches(q, args, row) ==
    \A p \in 1..Len(q) :
        q[p] \in Heads =>
            CASE q[p] = "(home_side_name IN (" ->
                    \/ PredicateHolds(q, args, row, p)
                    \/ \E p2 \in (p + 1)..Len(q) :
                        /\ q[p2] = ") OR away_side_name IN ("
                        /\ PredicateHolds(q, args, row, p2)
              [] q[p] = ") OR away_side_name IN (" -> TRUE
              [] OTHER -> PredicateHolds(q, args, row, p)

\* the orders a sequence can be put in
Orders(seq) ==
    {[i \in 1..Len(seq) |-> seq[f[i]]] :
        f \in {g \in [1..Len(seq) -> 1..Len(seq)] :
                \A i, j \in 1..Len(seq) : g[i] = g[j] => i = j}}

\* the rows of tbl that query q selects under args, in storage order
sqlSelect(tbl, q, args) == SelectSeq(tbl, LAMBDA row : sqlMatches(q, args, row))

\* the error of a query the database rejects or fails to run
QueryError == <<[op |-> "Query"]>>

----------------------------------------------------------------------------
(* The row materializer: scanRaces and scanEvents *)

\* the error of rows.Scan on row: a stored text that is no datetime cannot
\* be converted to a time.Time
rowsScan(row) ==
    IF row.advertised_start_time.kind = "text"
    THEN <<[op |-> "Scan"]>> ELSE NoError

\* sql.ErrNoRows
ErrNoRows == <<[op |-> "ErrNoRows"]>>

\* ptypes.TimestampProto(advertisedStart): [ts, err]; an instant before
\* those a Timestamp can hold is an error
TimestampProto(advertisedStart) ==
    IF advertisedStart < 0
    THEN [ts |-> 0, err |-> <<[op |-> "TimestampProto"]>>]
    ELSE [ts |-> advertisedStart, err |-> NoError]

\* getRaceStatus with the comparison the other way round
getRaceStatusAfter(advertisedStart, t) ==
    IF advertisedStart > t THEN "CLOSED" ELSE "OPEN"

\* getRaceStatus(advertisedStart), t being what time.Now() returns
getRaceStatus(advertisedStart, t) ==
    IF advertisedStart < t THEN "CLOSED" ELSE "OPEN"

\* getEventStatus with Before taken as not After
getEventStatusNotAfter(advertisedStart, t) ==
    IF advertisedStart <= t THEN "CLOSED" ELSE "OPEN"

\* getEventStatus(advertisedStart), t being what time.Now() returns
getEventStatus(advertisedStart, t) ==
    IF advertisedStart < t THEN "CLOSED" ELSE "OPEN"

\* the body of the loop of scanRaces on row, at instant t: [ret, err, obj];
\* ret says that scanRaces returns (nil, err) at this row
scanRace(row, t) ==
    LET err == rowsScan(row)
        advertisedStart == row.advertised_start_time.t
        conv == TimestampProto(advertisedStart)
    IN IF err # NoError
       THEN [ret |-> TRUE, err |-> IF err = ErrNoRows THEN NoError ELSE err,
             obj |-> <<>>]
       ELSE IF conv.err # NoError
       THEN [ret |-> TRUE, err |-> conv.err, obj |-> <<>>]
       ELSE [ret |-> FALSE, err |-> NoError,
             obj |-> <<[Id |-> row.id, MeetingId |-> row.meeting_id,
                        Name |-> row.name, Number |-> row.number,
                        Visible |-> row.visible,
                        AdvertisedStartTime |-> conv.ts,
                        Status |-> getRaceStatus(advertisedStart, t)]>>]

\* scanEvent with the error of ptypes.TimestampProto not tested
scanEventConversionUnchecked(row, t) ==
    LET err == rowsScan(row)
        advertisedStart == row.advertised_start_time.t
        conv == TimestampProto(advertisedStart)
    IN IF err # NoError
       THEN [ret |-> TRUE, err |-> IF err = ErrNoRows THEN NoError ELSE err,
             obj |-> <<>>]
       ELSE [ret |-> FALSE, err |-> NoError,
             obj |-> <<[Id |-> row.id, Sport |-> row.sport,
                        League |-> row.league,
                        HomeSideName |-> row.home_side_name,
                        AwaySideName |-> row.away_side_name,
                        Name |-> <<row.home_side_name, " vs ",
                                   row.away_side_name>>,
                        Visible |-> row.visible,
                        AdvertisedStartTime |-> conv.ts,
                        Status |-> getEventStatus(advertisedStart, t)]>>]

\* the body of the loop of scanEvents on row, at instant t: [ret, err, obj]
scanEvent(row, t) ==
    LET err == rowsScan(row)
        advertisedStart == row.advertised_start_time.t
        conv == TimestampProto(advertisedStart)
    IN IF err # NoError
       THEN [ret |-> TRUE, err |-> IF err = ErrNoRows THEN NoError ELSE err,
             obj |-> <<>>]
       ELSE IF conv.err # NoError
       THEN [ret |-> TRUE, err |-> conv.err, obj |-> <<>>]
       ELSE [ret |-> FALSE, err |-> NoError,
             obj |-> <<[Id |-> row.id, Sport |-> row.sport,
                        League |-> row.league,
                        HomeSideName |-> row.home_side_name,
                        AwaySideName |-> row.away_side_name,
                        Name |-> <<row.home_side_name, " vs ",
                                   row.away_side_name>>,
                        Visible |-> row.visible,
                        AdvertisedStartTime |-> conv.ts,
                        Status |-> getEventStatus(advertisedStart, t)]>>]

----------------------------------------------------------------------------
(* The repository: List and Get *)

\* fmt.Errorf("no event with id: %v", id)
NotFound(id) == <<[op |-> "no event with id", id |-> id]>>

\* eventsGet testing the number of events before the error
eventsGetCountFirst(id, events, err) ==
    IF Len(events) # 1 THEN [obj |-> <<>>, err |-> NotFound(id)]
    ELSE IF err # NoError THEN [obj |-> <<>>, err |-> err]
    ELSE [obj |-> <<events[1]>>, err |-> NoError]

\* eventsGet returning no event and no error when the id is not found
eventsGetNilNil(id, events, err) ==
    IF err # NoError THEN [obj |-> <<>>, err |-> err]
    ELSE IF Len(events) # 1 THEN [obj |-> <<>>, err |-> NoError]
    ELSE [obj |-> <<events[1]>>, err |-> NoError]

\* what eventsRepo.Get(id) returns, events and err being what List returned
eventsGet(id, events, err) ==
    IF err # NoError THEN [obj |-> <<>>, err |-> err]
    ELSE IF Len(events) # 1 THEN [obj |-> <<>>, err |-> NotFound(id)]
    ELSE [obj |-> <<events[1]>>, err |-> NoError]

\* what sportsService.ListEvents returns, events and err being what List
\* returned: [resp, err]
ListEvents(events, err) ==
    IF err # NoError THEN [resp |-> <<>>, err |-> err]
    ELSE [resp |-> <<[Events |-> events]>>, err |-> NoError]

\* what sportsService.GetEvent returns, event and err being what Get
\* returned: [resp, err]
GetEvent(event, err) ==
    IF err # NoError THEN [resp |-> <<>>, err |-> err]
    ELSE [resp |-> event, err |-> NoError]

\* the filter of Get: sports.ListEventsRequestFilter{Ids: []int64{id}}
eventsGetFilter(id) ==
    <<[Sports |-> <<>>, Leagues |-> <<>>, Sides |-> <<>>, Ids |-> <<id>>,
       Visible |-> <<>>]>>

\* query, args = r.applyFilter(query, filter)
listFilter(r, f) ==
    IF r = "races" THEN racesApplyFilter(racesListQuery, f)
    ELSE eventsApplyFilter(eventsListQuery, f)

\* query = r.applyOrdering(query, orderBy)
listOrdering(r, query, ob) ==
    IF r = "races" THEN racesApplyOrdering(query, ob)
    ELSE eventsApplyOrdering(query, ob)

\* the query and the arguments of r.db.Query: [panic, query, args]
queryOf(ord, args) == [panic |-> ord.panic, query |-> ord.query, args |-> args]

\* the ordering applied to what applyFilter returned
listOrdered(r, flt, ob) == queryOf(listOrdering(r, flt.query, ob), flt.args)

\* the query and arguments List builds: [panic, query, args]
listQuery(r, f, ob) == listOrdered(r, listFilter(r, f), ob)

\* the filters List is called with
ListFilters(r) ==
    IF r = "races"
    THEN {<<>>,
          <<[MeetingIds |-> <<2>>, Visible |-> <<>>]>>,
          <<[MeetingIds |-> <<>>, Visible |-> <<TRUE>>]>>}
    ELSE {<<>>,
          <<[Sports |-> <<>>, Leagues |-> <<>>, Sides |-> <<"a">>, Ids |-> <<>>,
             Visible |-> <<>>]>>,
          <<[Sports |-> <<"b">>, Leagues |-> <<>>, Sides |-> <<>>, Ids |-> <<>>,
             Visible |-> <<FALSE>>]>>}

\* the order-by strings List is called with: none, and "name"
ListOrderBys == {<<>>, <<<<"n", "a", "m", "e">>>>}

\* the call begins with the query q: its cursor, slice and results are fresh
BeginWith(c, op, id, f, ob, q) ==
    /\ call' = [call EXCEPT ![c] =
                <<[op |-> op, id |-> id, filter |-> f, orderBy |-> ob,
                   query |-> q.query, args |-> q.args]>>]
    /\ lpc' = [lpc EXCEPT ![c] = IF q.panic THEN "panicked" ELSE "query"]
    /\ cursor' = [cursor EXCEPT ![c] = [rows |-> <<>>, pos |-> 0, err |-> NoError]]
    /\ objs' = [objs EXCEPT ![c] = <<>>]
    /\ sampled' = [sampled EXCEPT ![c] = <<>>]
    /\ lret' = [lret EXCEPT ![c] = [objs |-> <<>>, err |-> NoError]]
    /\ gret' = [gret EXCEPT ![c] = [obj |-> <<>>, err |-> NoError]]
    /\ queries' = [queries EXCEPT ![c] = <<>>]
    /\ sret' = [sret EXCEPT ![c] = [resp |-> <<>>, err |-> NoError]]

\* List builds its query
BeginCall(c, op, id, f, ob) ==
    BeginWith(c, op, id, f, ob, listQuery(repo, f, ob))

\* List(filter, orderBy) is called: applyFilter, then applyOrdering
CallList(c) ==
    /\ lpc[c] \in {"idle", "done"}
    /\ \E f \in ListFilters(repo), ob \in ListOrderBys :
        BeginCall(c, "List", 0, f, ob)
    /\ UNCHANGED <<table, now>>
    /\ UNCHANGED reported
    /\ UNCHANGED <<repo, filterVars, orderVars, initVars>>

\* eventsRepo.Get(id) is called: r.List(&filter, nil)
CallGet(c) ==
    /\ lpc[c] \in {"idle", "done"}
    /\ repo = "events"
    /\ \E id \in IntVals : BeginCall(c, "Get", id, eventsGetFilter(id), <<>>)
    /\ UNCHANGED <<table, now>>
    /\ UNCHANGED reported
    /\ UNCHANGED <<repo, filterVars, orderVars, initVars>>

\* r.db.Query(query, args...) returns the rows selected, in some order
QueryRows(c) ==
    /\ lpc[c] = "query"
    /\ CountOf(call[c][1].query, "?") = Len(call[c][1].args)
    /\ \E rows \in Orders(sqlSelect(table, call[c][1].query, call[c][1].args)) :
        cursor' = [cursor EXCEPT ![c] = [rows |-> rows, pos |-> 0, err |-> NoError]]
    /\ lpc' = [lpc EXCEPT ![c] = "scan"]
    /\ UNCHANGED <<table, now, call, objs, sampled, lret, gret>>
    /\ queries' = [queries EXCEPT ![c] = Append(queries[c], NoError)]
    /\ UNCHANGED <<sret, reported>>
    /\ UNCHANGED <<repo, filterVars, orderVars, initVars>>

\* r.db.Query(query, args...) returns an error: List returns nil, err
QueryFails(c) ==
    /\ lpc[c] = "query"
    /\ lret' = [lret EXCEPT ![c] = [objs |-> <<>>, err |-> QueryError]]
    /\ lpc' = [lpc EXCEPT ![c] = "listed"]
    /\ UNCHANGED <<table, now, call, cursor, objs, sampled, gret>>
    /\ queries' = [queries EXCEPT ![c] = Append(queries[c], QueryError)]
    /\ UNCHANGED <<sret, reported>>
    /\ UNCHANGED <<repo, filterVars, orderVars, initVars>>

\* ScanRow with the slice a variable of the package, shared by the calls
ScanRowSharedSlice(c) ==
    /\ lpc[c] = "scan"
    /\ cursor[c].pos < Len(cursor[c].rows)
    /\ LET row == cursor[c].rows[cursor[c].pos + 1]
           r == IF repo = "races" THEN scanRace(row, now) ELSE scanEvent(row, now)
       IN IF r.ret
          THEN /\ lret' = [lret EXCEPT ![c] = [objs |-> <<>>, err |-> r.err]]
               /\ lpc' = [lpc EXCEPT ![c] = "listed"]
               /\ UNCHANGED <<cursor, objs, sampled, reported>>
          ELSE /\ objs' = [d \in Readers |-> objs[d] \o r.obj]
               /\ reported' =
                    reported \cup {[id |-> row.id,
                                    start |-> row.advertised_start_time,
                                    status |-> r.obj[1].Status]}
               /\ sampled' = [sampled EXCEPT ![c] = Append(sampled[c], now)]
               /\ cursor' = [cursor EXCEPT ![c].pos = cursor[c].pos + 1]
               /\ UNCHANGED <<lret, lpc>>
    /\ UNCHANGED <<table, now, call, gret>>
    /\ UNCHANGED <<queries, sret>>
    /\ UNCHANGED <<repo, filterVars, orderVars, initVars>>

\* one round of the loop of scanRaces / scanEvents: rows.Next() is true
ScanRow(c) ==
    /\ lpc[c] = "scan"
    /\ cursor[c].pos < Len(cursor[c].rows)
    /\ LET row == cursor[c].rows[cursor[c].pos + 1]
           r == IF repo = "races" THEN scanRace(row, now) ELSE scanEvent(row, now)
       IN IF r.ret
          THEN /\ lret' = [lret EXCEPT ![c] = [objs |-> <<>>, err |-> r.err]]
               /\ lpc' = [lpc EXCEPT ![c] = "listed"]
               /\ UNCHANGED <<cursor, objs, sampled, reported>>
          ELSE /\ objs' = [objs EXCEPT ![c] = objs[c] \o r.obj]
               /\ reported' =
                    reported \cup {[id |-> row.id,
                                    start |-> row.advertised_start_time,
                                    status |-> r.obj[1].Status]}
               /\ sampled' = [sampled EXCEPT ![c] = Append(sampled[c], now)]
               /\ cursor' = [cursor EXCEPT ![c].pos = cursor[c].pos + 1]
               /\ UNCHANGED <<lret, lpc>>
    /\ UNCHANGED <<table, now, call, gret>>
    /\ UNCHANGED <<queries, sret>>
    /\ UNCHANGED <<repo, filterVars, orderVars, initVars>>

\* rows.Next() is false after the last row: the loop ends and scanRaces /
\* scanEvents return the slice and nil
ScanEnd(c) ==
    /\ lpc[c] = "scan"
    /\ cursor[c].pos = Len(cursor[c].rows)
    /\ lret' = [lret EXCEPT ![c] = [objs |-> objs[c], err |-> NoError]]
    /\ lpc' = [lpc EXCEPT ![c] = "listed"]
    /\ UNCHANGED <<table, now, call, cursor, objs, sampled, gret>>
    /\ UNCHANGED <<queries, sret, reported>>
    /\ UNCHANGED <<repo, filterVars, orderVars, initVars>>

\* rows.Next() is false before the last row, the cursor having failed
\* (rows.Err() is set): the loop ends and scanRaces / scanEvents, which do
\* not read rows.Err(), return the slice and nil
CursorFails(c) ==
    /\ lpc[c] = "scan"
    /\ cursor[c].pos < Len(cursor[c].rows)
    /\ cursor' = [cursor EXCEPT ![c].err = <<[op |-> "Next"]>>]
    /\ lret' = [lret EXCEPT ![c] = [objs |-> objs[c], err |-> NoError]]
    /\ lpc' = [lpc EXCEPT ![c] = "listed"]
    /\ UNCHANGED <<table, now, call, objs, sampled, gret>>
    /\ UNCHANGED <<queries, sret, reported>>
    /\ UNCHANGED <<repo, filterVars, orderVars, initVars>>

\* List returns to its caller
ListReturn(c) ==
    /\ lpc[c] = "listed"
    /\ call[c][1].op = "List"
    /\ lpc' = [lpc EXCEPT ![c] = "done"]
    /\ UNCHANGED <<table, now, call, cursor, objs, sampled, lret, gret>>
    /\ sret' = IF repo = "events"
               THEN [sret EXCEPT ![c] = ListEvents(lret[c].objs, lret[c].err)]
               ELSE sret
    /\ UNCHANGED <<queries, reported>>
    /\ UNCHANGED <<repo, filterVars, orderVars, initVars>>

\* List returns to Get, and Get returns
GetReturn(c) ==
    /\ lpc[c] = "listed"
    /\ call[c][1].op = "Get"
    /\ gret' = [gret EXCEPT ![c] =
                eventsGet(call[c][1].id, lret[c].objs, lret[c].err)]
    /\ sret' = [sret EXCEPT ![c] = GetEvent(gret'[c].obj, gret'[c].err)]
    /\ lpc' = [lpc EXCEPT ![c] = "done"]
    /\ UNCHANGED <<table, now, call, cursor, objs, sampled, lret>>
    /\ UNCHANGED <<queries, reported>>
    /\ UNCHANGED <<repo, filterVars, orderVars, initVars>>

\* the clock advances
Tick ==
    /\ now < MaxTime
    /\ now' = now + 1
    /\ UNCHANGED <<table, lpc, call, cursor, objs, sampled, lret, gret>>
    /\ UNCHANGED <<queries, sret, reported>>
    /\ UNCHANGED <<repo, filterVars, orderVars, initVars>>

InitList ==
    /\ repo \in {"races", "events"}
    /\ table \in SeqsUpTo(IF repo = "races" THEN RaceRows ELSE EventRows, MaxRows)
    /\ now = 0
    /\ lpc = [c \in Readers |-> "idle"]
    /\ call = [c \in Readers |-> <<>>]
    /\ cursor = [c \in Readers |-> [rows |-> <<>>, pos |-> 0, err |-> NoError]]
    /\ objs = [c \in Readers |-> <<>>]
    /\ sampled = [c \in Readers |-> <<>>]
    /\ lret = [c \in Readers |-> [objs |-> <<>>, err |-> NoError]]
    /\ gret = [c \in Readers |-> [obj |-> <<>>, err |-> NoError]]
    /\ queries = [c \in Readers |-> <<>>]
    /\ sret = [c \in Readers |-> [resp |-> <<>>, err |-> NoError]]
    /\ reported = {}
    /\ FilterIdle
    /\ OrderIdle
    /\ InitIdle

\* the tables the concurrent callers read: two rows, of ids 1 and 2
ConcurrentTables(r) ==
    {t \in SeqsUpTo(IF r = "races" THEN RaceRows ELSE EventRows, 2) :
        Len(t) = 2 /\ t[1].id = 1 /\ t[2].id = 2}

\* the one caller of List and Get when calls follow one another
ListCallers == {1}

NextList ==
    \/ \E c \in ListCallers :
        \/ CallList(c)
        \/ CallGet(c)
        \/ QueryRows(c)
        \/ QueryFails(c)
        \/ ScanRow(c)
        \/ ScanEnd(c)
        \/ CursorFails(c)
        \/ ListReturn(c)
        \/ GetReturn(c)
    \/ Tick

SpecList == InitList /\ [][NextList]_vars

\* the callers of List and Get run concurrently on one repository, on one
\* table and at one instant of the clock
InitConcurrent ==
    /\ repo \in {"races", "events"}
    /\ table \in ConcurrentTables(repo)
    /\ now \in 0..MaxTime
    /\ lpc = [c \in Readers |-> "idle"]
    /\ call = [c \in Readers |-> <<>>]
    /\ cursor = [c \in Readers |-> [rows |-> <<>>, pos |-> 0, err |-> NoError]]
    /\ objs = [c \in Readers |-> <<>>]
    /\ sampled = [c \in Readers |-> <<>>]
    /\ lret = [c \in Readers |-> [objs |-> <<>>, err |-> NoError]]
    /\ gret = [c \in Readers |-> [obj |-> <<>>, err |-> NoError]]
    /\ queries = [c \in Readers |-> <<>>]
    /\ sret = [c \in Readers |-> [resp |-> <<>>, err |-> NoError]]
    /\ reported = {}
    /\ FilterIdle
    /\ OrderIdle
    /\ InitIdle

NextConcurrent ==
    \/ \E c \in Readers :
        \/ CallList(c)
        \/ CallGet(c)
        \/ QueryRows(c)
        \/ QueryFails(c)
        \/ ScanRow(c)
        \/ ScanEnd(c)
        \/ CursorFails(c)
        \/ ListReturn(c)
        \/ GetReturn(c)

SpecConcurrent == InitConcurrent /\ [][NextConcurrent]_vars

----------------------------------------------------------------------------
(* Properties of the row materializer and of Get *)

\* C6: every materialized race and event has status "OPEN" or "CLOSED", and
\* "CLOSED" exactly when its advertised start time is strictly before the
\* clock value read for it; at equal instants it is "OPEN".
C6_StatusFromClock ==
    \A c \in Readers :
        /\ Len(sampled[c]) = Len(objs[c])
        /\ \A i \in 1..Len(objs[c]) :
            /\ objs[c][i].Status \in {"OPEN", "CLOSED"}
            /\ objs[c][i].Status = "CLOSED"
                <=> objs[c][i].AdvertisedStartTime < sampled[c][i]
        /\ (lpc[c] = "done" /\ lret[c].err = NoError /\ cursor[c].err = NoError)
            => lret[c].objs = objs[c]

\* a List has returned two objects, the first read at the instant of its
\* start and open, the second read later and closed
C6_Witness ==
    \E c \in Readers :
        /\ lpc[c] = "done"
        /\ Len(lret[c].objs) = 2
        /\ sampled[c][1] = lret[c].objs[1].AdvertisedStartTime
        /\ lret[c].objs[1].Status = "OPEN"
        /\ lret[c].objs[2].Status = "CLOSED"

\* C7: Get(id) returns the one record List returned, whose id is the id asked
\* for, when List returned exactly one; it returns no record and a not-found
\* error when List returned none or more than one; it returns no record and
\* the error of List when List failed. It never returns no record and no
\* error.
C7_GetOneOrNotFound ==
    \A c \in Readers :
        (lpc[c] = "done" /\ call[c][1].op = "Get") =>
            LET id == call[c][1].id
                events == lret[c].objs
            IN /\ (lret[c].err = NoError /\ Len(events) = 1)
                    => /\ gret[c] = [obj |-> <<events[1]>>, err |-> NoError]
                       /\ events[1].Id = id
               /\ (lret[c].err = NoError /\ Len(events) # 1)
                    => gret[c] = [obj |-> <<>>, err |-> NotFound(id)]
               /\ lret[c].err # NoError
                    => gret[c] = [obj |-> <<>>, err |-> lret[c].err]
               /\ ~(gret[c].obj = <<>> /\ gret[c].err = NoError)

\* Get has returned the record of an id the table holds once
C7_Witness ==
    \E c \in Readers :
        /\ lpc[c] = "done"
        /\ call[c][1].op = "Get"
        /\ Len(table) = 2
        /\ gret[c].obj # <<>>
        /\ gret[c].obj[1].Id = call[c][1].id
        /\ gret[c].err = NoError

\* Get has returned not-found for an id the table holds twice
C7_WitnessTwoRows ==
    \E c \in Readers :
        /\ lpc[c] = "done"
        /\ call[c][1].op = "Get"
        /\ Len(lret[c].objs) = 2
        /\ gret[c].err = NotFound(call[c][1].id)

\* row can be scanned and its timestamp converted
Materializable(row) ==
    /\ row.advertised_start_time.kind = "datetime"
    /\ row.advertised_start_time.t >= 0

\* C14: scanRaces / scanEvents never go past a row that cannot be scanned or
\* whose timestamp cannot be converted: they return at that row, with the
\* error of that row and no objects, the objects materialized from the rows
\* before it not being returned.
C14_ScanFailureReturnsNothing ==
    \A c \in Readers :
        /\ Len(objs[c]) = cursor[c].pos
        /\ \A i \in 1..cursor[c].pos : Materializable(cursor[c].rows[i])
        /\ (/\ lpc[c] \in {"listed", "done"}
            /\ cursor[c].err = NoError
            /\ cursor[c].pos < Len(cursor[c].rows))
            => LET row == cursor[c].rows[cursor[c].pos + 1]
               IN /\ ~Materializable(row)
                  /\ lret[c].objs = <<>>
                  /\ lret[c].err
                        = IF row.advertised_start_time.kind = "text"
                          THEN <<[op |-> "Scan"]>>
                          ELSE <<[op |-> "TimestampProto"]>>

\* a List has returned the conversion error of its second row, and not the
\* object materialized from its first row
C14_Witness ==
    \E c \in Readers :
        /\ lpc[c] = "done"
        /\ call[c][1].op = "List"
        /\ Len(objs[c]) = 1
        /\ lret[c] = [objs |-> <<>>, err |-> <<[op |-> "TimestampProto"]>>]

\* a List has returned the scan error of its second row
C14_WitnessScan ==
    \E c \in Readers :
        /\ lpc[c] = "done"
        /\ Len(objs[c]) = 1
        /\ lret[c] = [objs |-> <<>>, err |-> <<[op |-> "Scan"]>>]

\* C15: List fully succeeds or fully fails: a List that returns no error
\* returns an object for every row the query selected, and a List whose
\* cursor failed during the iteration returns that error and no objects.
C15_AllOrNothing ==
    \A c \in Readers :
        lpc[c] = "done" =>
            /\ lret[c].err = NoError => Len(lret[c].objs) = Len(cursor[c].rows)
            /\ cursor[c].err # NoError
                => lret[c] = [objs |-> <<>>, err |-> cursor[c].err]

\* C16: a call runs r.db.Query once and no more; when the database rejects
\* the query, List returns the error of r.db.Query itself and no objects, Get
\* returns that error and no event, and ListEvents / GetEvent of the service
\* return that error and no response.
C16_QueryErrorPassedOn ==
    \A c \in Readers :
        /\ Len(queries[c]) <= 1
        /\ (lpc[c] \in {"listed", "done"} => Len(queries[c]) = 1)
        /\ (lpc[c] \in {"listed", "done"} /\ queries[c] = <<QueryError>>)
            => /\ lret[c] = [objs |-> <<>>, err |-> QueryError]
               /\ objs[c] = <<>>
               /\ lpc[c] = "done" =>
                    /\ call[c][1].op = "Get"
                        => gret[c] = [obj |-> <<>>, err |-> QueryError]
                    /\ repo = "events"
                        => sret[c] = [resp |-> <<>>, err |-> QueryError]

\* GetEvent has returned the error of a query the database rejected
C16_Witness ==
    \E c \in Readers :
        /\ lpc[c] = "done"
        /\ call[c][1].op = "Get"
        /\ queries[c] = <<QueryError>>
        /\ sret[c].err = QueryError

\* ListEvents has returned the error of a query the database rejected
C16_WitnessList ==
    \E c \in Readers :
        /\ lpc[c] = "done"
        /\ call[c][1].op = "List"
        /\ repo = "events"
        /\ queries[c] = <<QueryError>>
        /\ sret[c].err = QueryError

\* the object row is materialized to at instant t
ObjectOf(row, t) ==
    IF repo = "races" THEN scanRace(row, t).obj[1] ELSE scanEvent(row, t).obj[1]

\* the error materializing row ends with
ErrorOf(row) ==
    IF repo = "races" THEN scanRace(row, 0).err ELSE scanEvent(row, 0).err

\* what caller c has got is what its call gives when it runs alone on the
\* table, at the instants the call read the clock at: objects of rows its
\* own query selects, one object a row, or the error of the query or of one
\* of these rows; and for Get, what Get makes of that
ReturnsAsAlone(c) ==
    lpc[c] = "done" =>
        LET q == call[c][1]
            selected == sqlSelect(table, q.query, q.args)
        IN /\ lret[c].err = NoError =>
                \E rows \in Orders(selected) :
                    /\ Len(lret[c].objs) <= Len(rows)
                    /\ Len(sampled[c]) >= Len(lret[c].objs)
                    /\ \A i \in 1..Len(lret[c].objs) :
                        /\ Materializable(rows[i])
                        /\ lret[c].objs[i] = ObjectOf(rows[i], sampled[c][i])
           /\ lret[c].err # NoError =>
                /\ lret[c].objs = <<>>
                /\ \/ lret[c].err = QueryError
                   \/ \E i \in 1..Len(selected) :
                        /\ ~Materializable(selected[i])
                        /\ lret[c].err = ErrorOf(selected[i])
           /\ q.op = "Get" =>
                gret[c] = eventsGet(q.id, lret[c].objs, lret[c].err)

\* C17: List and Get calls running concurrently on one repository write
\* nothing the calls share (the repository, its sync.Once and the stored
\* rows stay as they are), and whatever the interleaving each call returns
\* what it returns when run alone on the same table and clock.
C17_CallsIndependent ==
    [][/\ UNCHANGED <<repo, table, initVars>>
       /\ \A c \in Readers :
            (lpc[c] # "done" /\ lpc'[c] = "done") => ReturnsAsAlone(c)']_vars

\* two calls with different filters are both between their first and their
\* second row
C17_Witness ==
    /\ \A c \in Readers : lpc[c] = "scan" /\ cursor[c].pos = 1
    /\ call[1][1].filter # call[2][1].filter
    /\ Len(cursor[1].rows) = 2

\* two interleaved calls have both returned, one of them both rows and the
\* other the one row its filter selects
C17_WitnessReturned ==
    /\ \A c \in Readers : lpc[c] = "done" /\ lret[c].err = NoError
    /\ Len(lret[1].objs) = 2
    /\ Len(lret[2].objs) = 1
    /\ lret[1].objs[1].Status = "CLOSED"

\* C20: the rows' start times being never written and the clock never going
\* backwards, a row that a read has reported "CLOSED" is reported "CLOSED" by
\* every later read: the status of a row changes from "OPEN" to "CLOSED" only.
C20_ClosedStaysClosed ==
    [][\A c \in Readers :
        Len(objs'[c]) = Len(objs[c]) + 1 =>
            LET row == cursor[c].rows[cursor[c].pos + 1]
                obj == objs'[c][Len(objs'[c])]
            IN [id |-> row.id, start |-> row.advertised_start_time,
                status |-> "CLOSED"] \in reported
                    => obj.Status = "CLOSED"]_vars

\* a row has been reported "OPEN" by one read and "CLOSED" by a later one,
\* and then read once more
C20_Witness ==
    \E c \in Readers :
        /\ Len(table) = 1
        /\ lpc[c] = "done"
        /\ Len(lret[c].objs) = 1
        /\ sampled[c][1] = MaxTime
        /\ [id |-> table[1].id, start |-> table[1].advertised_start_time,
            status |-> "OPEN"] \in reported
        /\ [id |-> table[1].id, start |-> table[1].advertised_start_time,
            status |-> "CLOSED"] \in reported

====
